---- MODULE Spec2Model ----
(***************************************************************************)
(* Model of setuptools-qmesh's environment checks (CheckGmsh, CheckQgis),  *)
(* the path validator assert_path, setup.py's check_env and the egg-info   *)
(* writers.                                                                *)
(*                                                                         *)
(* A Python string is a sequence of atoms.  The separator "/", the space   *)
(* and the newline are atoms of their own; every other atom stands for a   *)
(* run of characters holding no separator and no whitespace ("usr",        *)
(* "gmsh", "4.2.0").  split('/'), strip(), readline() and os.path.join     *)
(* only look at separators and whitespace, so they are modelled exactly.   *)
(***************************************************************************)
EXTENDS Naturals, Sequences, FiniteSets, TLC

VARIABLES host, dist, gmsh, qgis, env, egg, setup, meta

vars == <<host, dist, gmsh, qgis, env, egg, setup, meta>>

\* Longest captured output of `gmsh --version`, in atoms.
MaxOutLen == 3

\* Longest license or authors file, in atoms.
MaxTextLen == 2

\* ------------------------------------------------------------------ strings

SEP == "/"
SP == " "
NL == "\n"
\* A byte that is not valid UTF-8.
BAD == "\\xff"

\* Python's None: no string holds this atom.
None == <<"<None>">>

IsSpace(c) == c \in {SP, NL}

RECURSIVE LStrip(_)
LStrip(s) ==
    IF s # <<>> /\ IsSpace(Head(s)) THEN LStrip(Tail(s)) ELSE s

RECURSIVE RStrip(_)
RStrip(s) ==
    IF s # <<>> /\ IsSpace(s[Len(s)]) THEN RStrip(SubSeq(s, 1, Len(s) - 1)) ELSE s

\* str.strip()
Strip(s) ==
    LStrip(RStrip(s))

\* Index of the first atom c of s, 0 when there is none.
FirstIndex(s, c) ==
    IF \E i \in 1..Len(s) : s[i] = c
    THEN CHOOSE i \in 1..Len(s) : s[i] = c /\ \A j \in 1..(i - 1) : s[j] # c
    ELSE 0

\* ReadLine with a fault: the whole buffer is read.
ReadAll(buf) ==
    buf

\* file.readline() on a buffer rewound to its start: up to and including the
\* first newline.
ReadLine(buf) ==
    IF FirstIndex(buf, NL) = 0 THEN buf ELSE SubSeq(buf, 1, FirstIndex(buf, NL))

\* bytes.decode('utf-8') succeeds
Decodable(b) ==
    \A i \in 1..Len(b) : b[i] # BAD

\* str.split('/')
RECURSIVE Split(_)
Split(s) ==
    IF FirstIndex(s, SEP) = 0
    THEN <<s>>
    ELSE <<SubSeq(s, 1, FirstIndex(s, SEP) - 1)>>
            \o Split(SubSeq(s, FirstIndex(s, SEP) + 1, Len(s)))

\* os.path.join(a, b) (posixpath)
Join(a, b) ==
    IF b # <<>> /\ Head(b) = SEP THEN b
    ELSE IF a = <<>> \/ a[Len(a)] = SEP THEN a \o b
    ELSE a \o <<SEP>> \o b

\* --------------------------------------------------------------- filesystem

\* The absolute path string /n1/n2/...
RECURSIVE Abs(_)
Abs(names) ==
    IF names = <<>> THEN <<>> ELSE <<SEP, Head(names)>> \o Abs(Tail(names))

\* The host's filesystem tree: the kind of each entry, by its names from the
\* root.  "exe" is an executable regular file, "file" a regular file without
\* the executable bit.  It does not change during a packaging run.
FS ==
    [n \in { <<"usr">>, <<"usr", "bin">>, <<"usr", "lib">>, <<"opt">>, <<"srv">>,
                <<"usr", "lib", "qgis">>, <<"opt", "qgis">>, <<"usr", "lib", "gmsh">>,
                <<"opt", "bin">>, <<"usr", "lib", "qgis", "bin">> }
            |-> "dir"]
    @@ [n \in { <<"usr", "bin", "gmsh">>, <<"usr", "bin", "qgis">>, <<"opt", "gmsh">>,
                <<"opt", "bin", "qgis">>, <<"usr", "lib", "qgis", "bin", "qgis">> }
            |-> "exe"]
    @@ [n \in { <<"srv", "gmsh">> } |-> "file"]

\* The process's working directory, by its names from the root.
Cwd == <<"opt">>

\* The names of a path string: its non-empty segments; a segment of several
\* atoms (such as "qgis\n") is one name that no entry of FS bears.
RECURSIVE Names(_)
Names(segs) ==
    IF segs = <<>> THEN <<>>
    ELSE IF Head(segs) = <<>> THEN Names(Tail(segs))
    ELSE IF Len(Head(segs)) = 1 THEN <<Head(segs)[1]>> \o Names(Tail(segs))
    ELSE <<"?">> \o Names(Tail(segs))

\* stat(p): the kind of the entry the path string p denotes, "none" if none.
Kind(p) ==
    IF p = <<>> \/ p = None THEN "none"
    ELSE LET node == (IF Head(p) = SEP THEN <<>> ELSE Cwd) \o Names(Split(p))
             k == IF node = <<>> THEN "dir"
                  ELSE IF node \in DOMAIN FS THEN FS[node] ELSE "none"
         IN  IF p[Len(p)] = SEP /\ k \in {"file", "exe"} THEN "none" ELSE k

\* Exists with a fault: relative paths are rejected.
ExistsAbsoluteOnly(p) ==
    Kind(p) # "none" /\ Head(p) = SEP

\* os.path.exists
Exists(p) ==
    Kind(p) # "none"

\* os.path.isdir
IsDir(p) ==
    Kind(p) = "dir"

\* os.path.isfile
IsFile(p) ==
    Kind(p) \in {"file", "exe"}

\* ------------------------------------------------------------------- errors

NoErr == [type |-> "none", msg |-> <<>>]

Err(t, m) == [type |-> t, msg |-> m]

\* The message names the word w.
Mentions(e, w) ==
    \E i \in 1..Len(e.msg) : e.msg[i] = w

\* The message ends with the path p.
EndsWith(e, p) ==
    /\ Len(e.msg) >= Len(p)
    /\ SubSeq(e.msg, Len(e.msg) - Len(p) + 1, Len(e.msg)) = p

\* AssertPath with a fault: every value is accepted.
AssertPathAcceptAll(attr, value) ==
    NoErr

\* dist.assert_path: the error it raises, NoErr when it returns.
AssertPath(attr, value) ==
    IF ~Exists(value)
    THEN Err("DistutilsSetupError",
             <<attr, " must be a path (">> \o value \o <<" is not a path)">>)
    ELSE NoErr

\* ------------------------------------------------------------ host lookups

\* subprocess.check_output([tool, name]): the facility searches the host's
\* PATH for an executable file called name and prints its path on a line;
\* it exits nonzero (CalledProcessError) when there is none, and cannot be
\* launched (FileNotFoundError) when the facility itself is not installed.
CheckOutput(h, tool, name) ==
    LET hits == {i \in 1..Len(h.PATH) : Kind(Join(h.PATH[i], <<name>>)) = "exe"}
        first == CHOOSE i \in hits : \A j \in hits : i <= j
    IN  IF tool \notin h.tools THEN [ran |-> TRUE, exc |-> "FileNotFoundError", out |-> <<>>]
        ELSE IF hits = {} THEN [ran |-> TRUE, exc |-> "CalledProcessError", out |-> <<>>]
        ELSE [ran |-> TRUE, exc |-> "none", out |-> Join(h.PATH[first], <<name>>) \o <<NL>>]

\* The try block of the gmsh auto-detection: which on Linux and Darwin,
\* where.exe on Windows, no lookup on any other platform, where the local
\* variable is then read unbound after the try block.
GmshLookup(h) ==
    IF h.platform \in {"Linux", "Darwin"} THEN CheckOutput(h, "which", "gmsh")
    ELSE IF h.platform = "Windows" THEN CheckOutput(h, "where.exe", "gmsh")
    ELSE [ran |-> FALSE, exc |-> "UnboundLocalError", out |-> <<>>]

MsgNoGmsh ==
    <<"Qmesh uses ", "gmsh", " as a mesh generator, hence ", "gmsh",
      " must be installed. ", "Could not locate a ", "gmsh", " installation.">>

MsgNoQgis ==
    <<"Qmesh uses ", "qgis", " for GIS operations, hence ", "qgis",
      " must be installed. ", "Host system does not appear to have a ", "qgis",
      " installation.">>

\* The error a failed gmsh lookup ends in.
GmshLookupErr(r) ==
    IF r.exc = "none" THEN NoErr
    ELSE IF r.exc = "CalledProcessError" THEN Err("DistutilsSetupError", MsgNoGmsh)
    ELSE Err(r.exc, <<>>)

\* ---------------------------------------------------------------- CheckGmsh

\* GmshFinalize with a fault: the host is probed even when an override or a
\* context location is given.
GmshFinalizeAlwaysProbe(o, ctx, h) ==
    LET r == GmshLookup(h)
        cand == IF r.exc = "none" THEN Strip(r.out) ELSE None
    IN  [path |-> cand, probed |-> TRUE, lookup |-> r.exc,
         validated |-> r.exc = "none",
         err |-> IF r.exc # "none" THEN GmshLookupErr(r)
                 ELSE AssertPath("gmsh_bin_path", cand)]

\* GmshFinalize with a fault: a failed lookup is swallowed and validation
\* goes on with an empty location.
GmshFinalizeSwallow(o, ctx, h) ==
    LET probing == o = None /\ ctx = None
        r == GmshLookup(h)
        cand == IF o # None THEN o
                ELSE IF ctx # None THEN ctx
                ELSE Strip(r.out)
    IN  [path |-> cand, probed |-> probing,
         lookup |-> IF probing THEN r.exc ELSE "none",
         validated |-> TRUE,
         err |-> AssertPath("gmsh_bin_path", cand)]

\* CheckGmsh.finalize_options with the option value o (None when the option
\* is absent), the distribution's gmsh_bin_path ctx, on host h: the command's
\* gmsh_bin_path afterwards, whether the host was probed, how the lookup
\* ended, whether assert_path was reached, and the error raised.
GmshFinalize(o, ctx, h) ==
    LET probing == o = None /\ ctx = None
        r == GmshLookup(h)
        cand == IF o # None THEN o
                ELSE IF ctx # None THEN ctx
                ELSE IF r.exc = "none" THEN Strip(r.out)
                ELSE None
        failed == probing /\ r.exc # "none"
    IN  [path |-> cand, probed |-> probing,
         lookup |-> IF probing THEN r.exc ELSE "none",
         validated |-> ~failed,
         err |-> IF failed THEN GmshLookupErr(r)
                 ELSE AssertPath("gmsh_bin_path", cand)]

MsgGmshNotAt(p) ==
    <<"Could not find ", "gmsh", " at ">> \o p

\* subprocess.Popen([p, '--version']): the error raised when p cannot be
\* started, "none" when the process starts.
Launch(p) ==
    CASE Kind(p) = "exe" -> "none"
      [] Kind(p) = "none" -> "FileNotFoundError"
      [] OTHER -> "PermissionError"

\* GmshBinary with a fault: the filename is appended to every location.
GmshBinaryAlways(p) ==
    Join(p, <<"gmsh">>)

\* The first part of CheckGmsh.run: the path the command goes on with.
GmshBinary(p) ==
    IF IsDir(p) THEN Join(p, <<"gmsh">>) ELSE p

\* CheckGmsh.run on the command's gmsh_bin_path p, where the started process
\* exits with status exit after printing out: the command's gmsh_bin_path
\* afterwards, the path invoked (None when no process started), the state of
\* the capture buffer, the version announced, whether the distribution's
\* gmsh_bin_path is assigned, and the error raised.
GmshRunResult(p, exit, out) ==
    LET b == GmshBinary(p)
        line == ReadLine(out)
    IN  IF IsDir(p) /\ ~IsFile(b)
        THEN [path |-> b, invoked |-> None, buffer |-> "none", version |-> None,
              write |-> FALSE, err |-> Err("DistutilsSetupError", MsgGmshNotAt(b))]
        ELSE IF Launch(b) # "none"
        THEN [path |-> b, invoked |-> None, buffer |-> "open", version |-> None,
              write |-> FALSE, err |-> Err(Launch(b), <<>>)]
        ELSE IF exit # 0
        THEN [path |-> b, invoked |-> b, buffer |-> "open", version |-> None,
              write |-> FALSE, err |-> Err("DistutilsSetupError", MsgGmshNotAt(b))]
        ELSE IF ~Decodable(line)
        THEN [path |-> b, invoked |-> b, buffer |-> "open", version |-> None,
              write |-> FALSE, err |-> Err("UnicodeDecodeError", <<>>)]
        ELSE [path |-> b, invoked |-> b, buffer |-> "closed", version |-> Strip(line),
              write |-> TRUE, err |-> NoErr]

\* ---------------------------------------------------------------- CheckQgis

\* importlib.import_module('qgis'): the directory of the package found on the
\* host's module search path, None when there is none (ModuleNotFoundError).
FindQgis(h) ==
    LET hits == {i \in 1..Len(h.sysPath) : IsDir(Join(h.sysPath[i], <<"qgis">>))}
        first == CHOOSE i \in hits : \A j \in hits : i <= j
    IN  IF hits = {} THEN None ELSE Join(h.sysPath[first], <<"qgis">>)

\* CommonRoot with a fault: the segments are not compared.
RECURSIVE CommonRootAll(_, _, _)
CommonRootAll(root, py, bin) ==
    IF py = <<>> \/ bin = <<>> THEN root
    ELSE CommonRootAll(Join(root, Head(py)), Tail(py), Tail(bin))

\* The loop deriving the installation root: the segments of the two paths
\* are walked in step and joined onto root as long as they agree.
RECURSIVE CommonRoot(_, _, _)
CommonRoot(root, py, bin) ==
    IF py = <<>> \/ bin = <<>> THEN root
    ELSE IF Head(py) = Head(bin)
    THEN CommonRoot(Join(root, Head(py)), Tail(py), Tail(bin))
    ELSE root

\* CheckQgis.finalize_options with the option value o (None when absent),
\* the distribution's qgis_path ctx, on host h: the command's qgis_path
\* afterwards, whether the host was probed, whether the qgis module was
\* imported, how the lookup of the executable ended, whether assert_path was
\* reached, and the error raised.  Only ModuleNotFoundError is caught.
QgisFinalize(o, ctx, h) ==
    LET probing == o = None /\ ctx = None
        py == FindQgis(h)
        r == CheckOutput(h, "which", "qgis")
        failed == probing /\ (py = None \/ r.exc # "none")
        cand == IF o # None THEN o
                ELSE IF ctx # None THEN ctx
                ELSE IF failed THEN None
                ELSE CommonRoot(<<SEP>>, Split(py), Split(r.out))
    IN  [path |-> cand, probed |-> probing,
         imported |-> probing /\ py # None,
         lookup |-> IF probing /\ py # None THEN r.exc ELSE "none",
         validated |-> ~failed,
         err |-> IF probing /\ py = None THEN Err("DistutilsPlatformError", MsgNoQgis)
                 ELSE IF failed THEN Err(r.exc, <<>>)
                 ELSE AssertPath("qgis-path", cand)]

\* How importlib.import_module('qgis.core') can end on host h: the package
\* is not on the search path, or it is and its core module is missing
\* (ModuleNotFoundError), fails to load its libraries (ImportError) or loads.
CoreOutcomes(h) ==
    IF FindQgis(h) = None THEN {"ModuleNotFoundError"}
    ELSE {"ok", "ModuleNotFoundError", "ImportError"}

\* Which of the names QGis (qgis 2.x) and Qgis (qgis 3.x) the core module
\* has.
Apis == {{"QGis"}, {"Qgis"}, {"QGis", "Qgis"}, {}}

\* The names read by the nested try of CheckQgis.run, in order.
Tried(api) ==
    IF "QGis" \in api THEN <<"QGis">> ELSE <<"QGis", "Qgis">>

\* The version constant of the toolkit.
QgisVersion == <<"3.22.4">>

\* QgisRunResult with a fault: there is no fallback to the second name.
QgisRunNoFallback(p, core, api) ==
    IF core = "ModuleNotFoundError"
    THEN [init |-> FALSE, tried |-> <<>>, version |-> None, write |-> TRUE,
          err |-> NoErr]
    ELSE IF core # "ok"
    THEN [init |-> FALSE, tried |-> <<>>, version |-> None, write |-> FALSE,
          err |-> Err(core, <<>>)]
    ELSE IF "QGis" \notin api
    THEN [init |-> TRUE, tried |-> <<"QGis">>, version |-> None, write |-> FALSE,
          err |-> Err("AttributeError", <<>>)]
    ELSE [init |-> TRUE, tried |-> <<"QGis">>, version |-> QgisVersion,
          write |-> TRUE, err |-> NoErr]

\* CheckQgis.run on the command's qgis_path p, where importing qgis.core ends
\* as core and the module has the names api: whether the toolkit was
\* initialised, the names read for the version, the version announced,
\* whether the distribution's qgis_path is assigned, and the error raised
\* (NoErr: run returns normally).  The except clause builds a
\* DistutilsPlatformError without raising it.
QgisRunResult(p, core, api) ==
    IF core = "ModuleNotFoundError"
    THEN [init |-> FALSE, tried |-> <<>>, version |-> None, write |-> TRUE,
          err |-> NoErr]
    ELSE IF core # "ok"
    THEN [init |-> FALSE, tried |-> <<>>, version |-> None, write |-> FALSE,
          err |-> Err(core, <<>>)]
    ELSE IF api = {}
    THEN [init |-> TRUE, tried |-> Tried(api), version |-> None, write |-> FALSE,
          err |-> Err("AttributeError", <<>>)]
    ELSE [init |-> TRUE, tried |-> Tried(api), version |-> QgisVersion,
          write |-> TRUE, err |-> NoErr]

\* ------------------------------------------------------- setup.py check_env

\* check_env of setup.py: whether the qgis module was imported, how the
\* lookup of gmsh ended ("none" when it found gmsh or did not run), and the
\* error raised, NoErr when check_env returns.
CheckEnvResult(h) ==
    IF FindQgis(h) = None
    THEN [imported |-> FALSE, lookup |-> "none",
          err |-> Err("DistutilsPlatformError", MsgNoQgis)]
    ELSE IF GmshLookup(h).ran
    THEN [imported |-> TRUE, lookup |-> GmshLookup(h).exc,
          err |-> GmshLookupErr(GmshLookup(h))]
    ELSE [imported |-> TRUE, lookup |-> "none", err |-> NoErr]

\* ----------------------------------------------------------- egg-info writer

Placeholder == <<"Could not obtain git sha key.">>

DirtyNote == <<" + uncommited changes (built from dirty repository).">>

HexSha == <<"9fceb02d0ae598e95dc970b74767f19372d61af8">>

\* The states of the enclosing directory: no repository, a repository
\* without any commit, a clean and a dirty working tree.
Repos == {"norepo", "empty", "clean", "dirty"}

\* The try blocks of write_git_sha_key: git.Repo(".") raises
\* InvalidGitRepositoryError outside a repository, which is caught;
\* repo.head.object raises ValueError in a repository without commits, which
\* is not.
GitShaKey(repo) ==
    CASE repo = "norepo" -> [content |-> Placeholder, err |-> NoErr]
      [] repo = "empty" -> [content |-> None, err |-> Err("ValueError", <<>>)]
      [] repo = "clean" -> [content |-> HexSha, err |-> NoErr]
      [] OTHER -> [content |-> HexSha \o DirtyNote, err |-> NoErr]

\* A value no read has produced yet.
Unread == <<"<unread>">>

\* The local files the license and authors writers copy, which bear the name
\* of their artifact, and the artifacts of the five writers.
Sources == {"LICENSE", "AUTHORS.md"}

Artifacts == Sources \cup {"GIT_SHA_KEY", "QGIS_PATH", "GMSH_BIN_PATH"}

\* Truthy with a fault: the empty string counts as true.
TruthyNotNone(data) ==
    data # None

\* Python's truth value of a string or None.
Truthy(data) ==
    data # None /\ data # <<>>

\* The call cmd.write_or_delete_file(argname, filename, data) where the
\* artifact holds old (None: there is no such file): the operation carried
\* out and what the artifact holds afterwards.  Data that is not empty is
\* written; with empty data an artifact left by an earlier build is deleted.
WriteOrDeleteFile(old, data) ==
    IF Truthy(data) THEN [op |-> "write", content |-> data]
    ELSE IF old = None THEN [op |-> "none", content |-> None]
    ELSE IF data = None THEN [op |-> "warn", content |-> old]
    ELSE [op |-> "delete", content |-> None]

\* write_full_license and write_author_ids, with the distribution's flag,
\* the local file holding src (None: there is no such file) and the
\* artifact holding old: whether the local file was opened, what was read,
\* the operation on the artifact, its content afterwards, the error raised.
CopyFile(flag, src, old) ==
    IF ~flag
    THEN [opened |-> FALSE, read |-> Unread, op |-> "none", content |-> old,
          err |-> NoErr]
    ELSE IF src = None
    THEN [opened |-> TRUE, read |-> Unread, op |-> "none", content |-> old,
          err |-> Err("FileNotFoundError", <<>>)]
    ELSE [opened |-> TRUE, read |-> src, op |-> WriteOrDeleteFile(old, src).op,
          content |-> WriteOrDeleteFile(old, src).content, err |-> NoErr]

\* write_qgis_path and write_gmsh_bin_path, with the distribution's location
\* loc for the tool and the artifact holding old.
WritePath(loc, old) ==
    IF Truthy(loc)
    THEN [op |-> WriteOrDeleteFile(old, loc).op,
          content |-> WriteOrDeleteFile(old, loc).content]
    ELSE [op |-> "none", content |-> old]

\* -------------------------------------------------------------------- state

\* The hosts a packaging run is tried on: platform name, the lookup
\* facilities installed, the executable search path, the module search path.
Hosts ==
    { [platform |-> "Linux", tools |-> {"which"},
       PATH |-> <<Abs(<<"usr", "bin">>)>>, sysPath |-> <<Abs(<<"usr", "lib">>)>>],
      [platform |-> "Linux", tools |-> {"which"},
       PATH |-> <<Abs(<<"usr", "bin">>)>>, sysPath |-> <<Abs(<<"opt">>)>>],
      [platform |-> "Linux", tools |-> {"which"}, PATH |-> <<>>, sysPath |-> <<>>],
      [platform |-> "Linux", tools |-> {},
       PATH |-> <<Abs(<<"usr", "bin">>)>>, sysPath |-> <<Abs(<<"usr", "lib">>)>>],
      [platform |-> "Darwin", tools |-> {"which"},
       PATH |-> <<Abs(<<"srv">>), Abs(<<"opt">>)>>, sysPath |-> <<Abs(<<"opt">>)>>],
      [platform |-> "Windows", tools |-> {"where.exe"},
       PATH |-> <<Abs(<<"usr", "bin">>)>>, sysPath |-> <<Abs(<<"usr", "lib">>)>>],
      [platform |-> "Windows", tools |-> {"where.exe"}, PATH |-> <<>>, sysPath |-> <<>>],
      [platform |-> "FreeBSD", tools |-> {"which"},
       PATH |-> <<Abs(<<"usr", "bin">>)>>, sysPath |-> <<Abs(<<"usr", "lib">>)>>] }

\* The layouts of a qgis installation: the directory on the module search
\* path that holds the package, the directory on PATH that holds the
\* executable.
QgisHosts ==
    { [platform |-> "Linux", tools |-> {"which"}, PATH |-> <<bin>>, sysPath |-> <<lib>>] :
        bin \in { Abs(<<"usr", "bin">>), Abs(<<"opt", "bin">>),
                  Abs(<<"usr", "lib", "qgis", "bin">>) },
        lib \in { Abs(<<"usr", "lib">>), Abs(<<"opt">>) } }

\* Values of the option --gmsh-bin-path: absent, the executable, its
\* directory (with and without a trailing separator), a relative path, a
\* directory holding a file that is not executable, that file, a directory
\* whose gmsh entry is a directory, a directory without gmsh, a path that
\* does not exist, the empty string.
GmshOptions ==
    { None, Abs(<<"opt", "gmsh">>), Abs(<<"opt">>), Abs(<<"opt">>) \o <<SEP>>, <<"gmsh">>,
      Abs(<<"srv">>), Abs(<<"srv", "gmsh">>), Abs(<<"usr", "lib">>), Abs(<<"usr">>),
      Abs(<<"nope">>), <<>> }

\* Values of the option --qgis-path.
QgisOptions ==
    { None, Abs(<<"usr">>), Abs(<<"opt">>) \o <<SEP>>, Abs(<<"nope">>) }

\* Values the setup() keywords gmsh_bin_path and qgis_path give the context:
\* absent, a path that exists, one that does not, the empty string.
GmshKeywords == { None, Abs(<<"usr", "bin", "gmsh">>), Abs(<<"nope">>), <<>> }

QgisKeywords == { None, Abs(<<"usr">>), Abs(<<"nope">>), <<>> }

OutAtoms == {"4.2.0", SP, NL}

\* What `gmsh --version` may print: every text of up to MaxOutLen atoms, and
\* one that is not valid UTF-8.
Outputs == UNION {[1..n -> OutAtoms] : n \in 0..MaxOutLen} \cup {<<BAD, NL>>}

ExitCodes == {0, 1}

TextAtoms == {"GPLv3", NL}

\* What the local license and authors files may hold.
Texts == UNION {[1..n -> TextAtoms] : n \in 0..MaxTextLen}

\* What an artifact left in the egg-info directory by an earlier build holds.
Stale == <<"stale">>

\* The writers that keep their position in meta; write_git_sha_key keeps
\* its own in egg.
Writers == Artifacts \ {"GIT_SHA_KEY"}

\* The egg-info directory m after the call of write_or_delete_file for the
\* artifact a with data.
Called(m, a, data) ==
    [m EXCEPT !.files[a] = WriteOrDeleteFile(m.files[a], data).content,
              !.log = @ \o (IF WriteOrDeleteFile(m.files[a], data).op # "none"
                            THEN <<[op |-> WriteOrDeleteFile(m.files[a], data).op,
                                    name |-> a]>>
                            ELSE <<>>)]

\* The egg-info directory of a first build, with no writer called yet.
NewMeta ==
    [pc |-> [w \in Writers |-> "idle"], read |-> [w \in Writers |-> Unread],
     err |-> [w \in Writers |-> NoErr], files |-> [a \in Artifacts |-> None],
     log |-> <<>>]

NewCommand ==
    [pc |-> "new", opt |-> None, ctx |-> None, path |-> None, probed |-> FALSE,
     lookup |-> "none", validated |-> FALSE, resolved |-> None, invoked |-> None,
     exit |-> 0, out |-> <<>>, core |-> "none", api |-> {}, tried |-> <<>>,
     buffer |-> "none", version |-> None, err |-> NoErr]

\* The state before the first command, whatever the egg-info directory holds.
Start ==
    /\ host \in Hosts
    /\ dist \in [gmsh_bin_path : GmshKeywords, qgis_path : QgisKeywords,
                 include_git_sha_key : BOOLEAN, include_full_license : BOOLEAN,
                 include_author_ids : BOOLEAN]
    /\ gmsh = NewCommand
    /\ qgis = NewCommand
    /\ env = [QT_LOGGING_RULES |-> None, QT_QPA_PLATFORM |-> None, trace |-> <<>>]
    /\ egg = [pc |-> "idle", repo |-> "norepo", git_sha_key |-> None, err |-> NoErr]
    /\ setup = [pc |-> "new", lookup |-> "none", err |-> NoErr]

Init ==
    Start /\ meta = NewMeta

\* An error raised by a stage aborts the packaging run.
Aborted ==
    \/ gmsh.pc \in {"rejected", "failed"}
    \/ qgis.pc \in {"rejected", "failed"}
    \/ egg.pc = "failed"
    \/ setup.pc = "failed"
    \/ \E w \in Writers : meta.pc[w] = "failed"

\* The pipeline runs a command as soon as it has finalised its options
\* (run_command: ensure_finalized, then run), so no other stage starts
\* between the two.
Idle ==
    gmsh.pc # "finalized" /\ qgis.pc # "finalized"

Pristine ==
    gmsh.pc = "new" /\ qgis.pc = "new" /\ egg.pc = "idle"

\* CheckGmsh.finalize_options, with the option value o parsed beforehand.
GmshFinalizeStep ==
    /\ gmsh.pc = "new"
    /\ \E o \in GmshOptions :
          \E r \in {GmshFinalize(o, dist.gmsh_bin_path, host)} :
              gmsh' = [gmsh EXCEPT !.pc = IF r.err = NoErr THEN "finalized" ELSE "rejected",
                                   !.opt = o, !.ctx = dist.gmsh_bin_path,
                                   !.path = r.path, !.resolved = r.path,
                                   !.probed = r.probed, !.lookup = r.lookup,
                                   !.validated = r.validated, !.err = r.err]
    /\ UNCHANGED <<host, dist, qgis, env, egg, setup, meta>>

\* CheckGmsh.finalize_options in the pipeline.
GmshFinalizeOptions ==
    ~Aborted /\ Idle /\ GmshFinalizeStep

\* CheckGmsh.run, where the process started prints one of outs.
GmshRunStep(outs) ==
    /\ gmsh.pc = "finalized"
    /\ \E exit \in ExitCodes, out \in outs :
          \E r \in {GmshRunResult(gmsh.path, exit, out)} :
              /\ gmsh' = [gmsh EXCEPT !.pc = IF r.err = NoErr THEN "done" ELSE "failed",
                                      !.path = r.path, !.invoked = r.invoked,
                                      !.exit = IF r.invoked = None THEN 0 ELSE exit,
                                      !.out = IF r.invoked # None /\ exit = 0 THEN out
                                              ELSE <<>>,
                                      !.buffer = r.buffer, !.version = r.version,
                                      !.err = r.err]
              /\ dist' = IF r.write THEN [dist EXCEPT !.gmsh_bin_path = r.path] ELSE dist
    /\ UNCHANGED <<host, qgis, env, egg, setup, meta>>

\* CheckGmsh.run in the pipeline.
GmshRunOn(outs) ==
    ~Aborted /\ GmshRunStep(outs)

\* QgisFinalizeStep with a fault: the context's location is read from the
\* attribute of the other tool.
QgisFinalizeWrongAttr ==
    /\ qgis.pc = "new"
    /\ \E o \in QgisOptions :
          \E r \in {QgisFinalize(o, dist.gmsh_bin_path, host)} :
              /\ qgis' = [qgis EXCEPT !.pc = IF r.err = NoErr THEN "finalized"
                                            ELSE "rejected",
                                      !.opt = o, !.ctx = dist.gmsh_bin_path,
                                      !.path = r.path, !.resolved = r.path,
                                      !.probed = r.probed, !.lookup = r.lookup,
                                      !.validated = r.validated, !.err = r.err]
              /\ env' = IF r.probed
                        THEN [env EXCEPT !.trace = @ \o <<"import qgis">>]
                        ELSE env
    /\ UNCHANGED <<host, dist, gmsh, egg, setup, meta>>

\* CheckQgis.finalize_options, with the option value o parsed beforehand.
QgisFinalizeStep ==
    /\ qgis.pc = "new"
    /\ \E o \in QgisOptions :
          \E r \in {QgisFinalize(o, dist.qgis_path, host)} :
              /\ qgis' = [qgis EXCEPT !.pc = IF r.err = NoErr THEN "finalized"
                                            ELSE "rejected",
                                      !.opt = o, !.ctx = dist.qgis_path,
                                      !.path = r.path, !.resolved = r.path,
                                      !.probed = r.probed, !.lookup = r.lookup,
                                      !.validated = r.validated, !.err = r.err]
              /\ env' = IF r.probed
                        THEN [env EXCEPT !.trace = @ \o <<"import qgis">>]
                        ELSE env
    /\ UNCHANGED <<host, dist, gmsh, egg, setup, meta>>

\* CheckQgis.finalize_options in the pipeline.
QgisFinalizeOptions ==
    ~Aborted /\ Idle /\ QgisFinalizeStep

\* CheckQgis.run
QgisRunStep ==
    /\ qgis.pc = "finalized"
    /\ \E core \in CoreOutcomes(host), api \in Apis :
          \E r \in {QgisRunResult(qgis.path, core, api)} :
              /\ qgis' = [qgis EXCEPT !.pc = IF r.err = NoErr THEN "done" ELSE "failed",
                                      !.core = core,
                                      !.api = IF core = "ok" THEN api ELSE {},
                                      !.tried = r.tried, !.version = r.version,
                                      !.err = r.err]
              /\ env' = [env EXCEPT !.QT_LOGGING_RULES = <<"qt5ct.debug=false">>,
                                    !.QT_QPA_PLATFORM = <<"offscreen">>,
                                    !.trace = @ \o <<"setenv", "import qgis.core">>
                                                \o IF r.init THEN <<"initQgis">> ELSE <<>>]
              /\ dist' = IF r.write THEN [dist EXCEPT !.qgis_path = qgis.path] ELSE dist
    /\ UNCHANGED <<host, gmsh, egg, setup, meta>>

\* CheckQgis.run in the pipeline.
QgisRun ==
    ~Aborted /\ QgisRunStep

\* setup.py up to the call of setup(): the module sets the two Qt variables,
\* then main() calls check_env.
CheckEnv ==
    /\ setup.pc = "new"
    /\ Pristine
    /\ \E r \in {CheckEnvResult(host)} :
          setup' = [pc |-> IF r.err = NoErr THEN "passed" ELSE "failed",
                    lookup |-> r.lookup, err |-> r.err]
    /\ env' = [env EXCEPT !.QT_LOGGING_RULES = <<"qt5ct.debug=false">>,
                          !.QT_QPA_PLATFORM = <<"offscreen">>,
                          !.trace = @ \o <<"setenv", "import qgis">>]
    /\ UNCHANGED <<host, dist, gmsh, qgis, egg, meta>>

\* The egg_info command loads the module of the writers (which imports git)
\* and calls write_git_sha_key in a directory in state repo.
WriteGitShaKey ==
    /\ ~Aborted /\ Idle
    /\ egg.pc = "idle"
    /\ \E repo \in Repos, lib \in BOOLEAN :
          \E r \in {GitShaKey(repo)} :
              /\ egg' = IF ~lib
                        THEN [egg EXCEPT !.pc = "failed", !.repo = repo,
                                         !.err = Err("ImportError", <<>>)]
                        ELSE IF ~dist.include_git_sha_key
                        THEN [egg EXCEPT !.pc = "done", !.repo = repo]
                        ELSE [egg EXCEPT !.pc = IF r.err = NoErr THEN "done"
                                               ELSE "failed",
                                         !.repo = repo, !.git_sha_key = r.content,
                                         !.err = r.err]
              /\ meta' = IF lib /\ dist.include_git_sha_key /\ r.err = NoErr
                         THEN Called(meta, "GIT_SHA_KEY", r.content)
                         ELSE meta
    /\ UNCHANGED <<host, dist, gmsh, qgis, env, setup>>

\* One of write_full_license and write_author_ids, named by its artifact a,
\* with the distribution's flag for it.
CopyWriter(a, flag) ==
    /\ ~Aborted /\ Idle
    /\ meta.pc[a] = "idle"
    /\ \E src \in Texts \cup {None} :
          \E r \in {CopyFile(flag, src, meta.files[a])} :
              meta' = [meta EXCEPT
                          !.pc[a] = IF r.err = NoErr THEN "done" ELSE "failed",
                          !.read[a] = r.read,
                          !.err[a] = r.err,
                          !.files[a] = r.content,
                          !.log = @ \o (IF r.opened THEN <<[op |-> "open", name |-> a]>>
                                        ELSE <<>>)
                                   \o (IF r.op # "none" THEN <<[op |-> r.op, name |-> a]>>
                                        ELSE <<>>)]
    /\ UNCHANGED <<host, dist, gmsh, qgis, env, egg, setup>>

WriteFullLicense ==
    CopyWriter("LICENSE", dist.include_full_license)

WriteAuthorIds ==
    CopyWriter("AUTHORS.md", dist.include_author_ids)

\* One of write_qgis_path and write_gmsh_bin_path, named by its artifact a,
\* with the distribution's location loc for its tool.
PathWriter(a, loc) ==
    /\ ~Aborted /\ Idle
    /\ meta.pc[a] = "idle"
    /\ \E r \in {WritePath(loc, meta.files[a])} :
          meta' = [meta EXCEPT
                      !.pc[a] = "done",
                      !.read[a] = loc,
                      !.files[a] = r.content,
                      !.log = @ \o (IF r.op # "none" THEN <<[op |-> r.op, name |-> a]>>
                                    ELSE <<>>)]
    /\ UNCHANGED <<host, dist, gmsh, qgis, env, egg, setup>>

WriteQgisPath ==
    PathWriter("QGIS_PATH", dist.qgis_path)

WriteGmshBinPath ==
    PathWriter("GMSH_BIN_PATH", dist.gmsh_bin_path)

\* CheckGmsh.run in the pipeline, with a gmsh that prints its version on a line.
GmshRun ==
    GmshRunOn({<<"4.2.0", NL>>})

\* CheckGmsh.run with every output of Outputs.
GmshRunAnyOutput ==
    GmshRunOn(Outputs)

Next ==
    \/ GmshFinalizeOptions
    \/ GmshRun
    \/ QgisFinalizeOptions
    \/ QgisRun
    \/ CheckEnv

\* The two checks in the pipeline, in any order, and setup.py's check_env.
Spec == Init /\ [][Next]_vars

\* The egg_info command's writers.
NextEgg ==
    \/ WriteGitShaKey
    \/ WriteFullLicense
    \/ WriteAuthorIds

\* A rebuild finds the artifacts of the earlier build in the egg-info
\* directory.
InitEgg ==
    /\ Start
    /\ dist.gmsh_bin_path = None /\ dist.qgis_path = None
    /\ meta \in {NewMeta, [NewMeta EXCEPT !.files = [a \in Artifacts |-> Stale]]}

SpecEgg == InitEgg /\ [][NextEgg]_vars

\* The mesh-generator check alone, over every output of the binary.
InitGmsh ==
    /\ Init
    /\ dist.qgis_path = None
    /\ ~dist.include_git_sha_key /\ ~dist.include_full_license /\ ~dist.include_author_ids

NextGmsh ==
    \/ GmshFinalizeOptions
    \/ GmshRunAnyOutput

SpecGmsh == InitGmsh /\ [][NextGmsh]_vars

\* The GIS-toolkit check alone, over the layouts of QgisHosts.
InitQgis ==
    /\ host \in QgisHosts
    /\ dist \in [gmsh_bin_path : {None}, qgis_path : QgisKeywords,
                 include_git_sha_key : {FALSE}, include_full_license : {FALSE},
                 include_author_ids : {FALSE}]
    /\ gmsh = NewCommand
    /\ qgis = NewCommand
    /\ env = [QT_LOGGING_RULES |-> None, QT_QPA_PLATFORM |-> None, trace |-> <<>>]
    /\ egg = [pc |-> "idle", repo |-> "norepo", git_sha_key |-> None, err |-> NoErr]
    /\ setup = [pc |-> "new", lookup |-> "none", err |-> NoErr]
    /\ meta = NewMeta

NextQgis ==
    \/ QgisFinalizeOptions
    \/ QgisRun

SpecQgis == InitQgis /\ [][NextQgis]_vars

\* The two checks and the tool-path writers of the egg_info command, which
\* the pipeline may run before or after either check.
InitPaths ==
    /\ Init
    /\ ~dist.include_git_sha_key /\ ~dist.include_full_license /\ ~dist.include_author_ids

NextPaths ==
    \/ GmshFinalizeOptions
    \/ GmshRun
    \/ QgisFinalizeOptions
    \/ QgisRun
    \/ WriteQgisPath
    \/ WriteGmshBinPath

SpecPaths == InitPaths /\ [][NextPaths]_vars

\* The two checks called one after the other, in either order, by a caller
\* that goes on to the second whatever the first ends in.
CheckGmshFinalize ==
    Idle /\ GmshFinalizeStep

CheckGmshRun ==
    GmshRunStep({<<"4.2.0", NL>>})

CheckQgisFinalize ==
    Idle /\ QgisFinalizeStep

CheckQgisRun ==
    QgisRunStep

NextChecks ==
    \/ CheckGmshFinalize
    \/ CheckGmshRun
    \/ CheckQgisFinalize
    \/ CheckQgisRun

SpecChecks == InitPaths /\ [][NextChecks]_vars

\* ------------------------------------------------------------------- claims

\* The truth about the filesystem, as the claims speak of it.
Denotes(p) ==
    Kind(p) # "none"

\* The precedence of finalize_options, of a command record c that has
\* finalised its options.
Precedence(c) ==
    /\ c.opt # None => c.resolved = c.opt /\ ~c.probed
    /\ c.opt = None /\ c.ctx # None => c.resolved = c.ctx /\ ~c.probed
    /\ c.probed => c.opt = None /\ c.ctx = None
    /\ c.opt # None /\ Denotes(c.opt) => c.pc # "rejected"
    /\ c.pc = "finalized" => c.path = c.resolved

DistutilsErrors == {"DistutilsSetupError", "DistutilsPlatformError"}

\* C3: with no override and no context location, a failed import of qgis or
\* a lookup of the qgis executable that exits nonzero makes
\* CheckQgis.finalize_options raise a distutils error (DistutilsPlatformError
\* for the import), and no path is stored in qgis_path.
C3_ProbeFailure ==
    qgis.probed /\ (FindQgis(host) = None \/ qgis.lookup = "CalledProcessError")
        => /\ qgis.pc = "rejected"
           /\ qgis.err.type \in DistutilsErrors
           /\ FindQgis(host) = None => qgis.err.type = "DistutilsPlatformError"
           /\ qgis.path = None

\* The part of a command record c that C4 speaks of.
Validated(c, attr) ==
    /\ c.resolved # None => c.validated
    /\ c.pc \in {"finalized", "done", "failed"} => c.validated /\ Denotes(c.resolved)
    /\ c.validated /\ Denotes(c.resolved) => c.pc # "rejected"
    /\ c.validated /\ ~Denotes(c.resolved)
        => /\ c.pc = "rejected"
           /\ c.err.type = "DistutilsSetupError"
           /\ c.err.msg = <<attr, " must be a path (">> \o c.resolved
                            \o <<" is not a path)">>

\* C4: assert_path returns for every path that denotes an existing file or
\* directory, absolute or relative, and raises DistutilsSetupError for every
\* other one; both finalize_options call it on the final candidate, be it
\* the override, the context's value or the probe's result, and its error is
\* the one they raise.
C4_PathValidator ==
    /\ gmsh.pc # "new" => Validated(gmsh, "gmsh_bin_path")
    /\ qgis.pc # "new" => Validated(qgis, "qgis-path")

\* A relative override that exists has been accepted.
C4_Witness ==
    /\ gmsh.pc = "finalized"
    /\ gmsh.opt = <<"gmsh">>
    /\ gmsh.validated

\* p is loc with the filename gmsh appended as a path component.
Appended(loc, p) ==
    \/ p = loc \o <<SEP, "gmsh">> /\ loc[Len(loc)] # SEP
    \/ p = loc \o <<"gmsh">> /\ loc[Len(loc)] = SEP

\* C5: CheckGmsh.run appends the filename gmsh to the resolved location
\* exactly when that location is a directory, and fails with a
\* DistutilsSetupError when the result is not a file; otherwise the path it
\* invokes, and records on success, is the resolved location unmodified.
C5_BinaryName ==
    gmsh.pc \in {"done", "failed"}
        => /\ Kind(gmsh.resolved) = "dir" => Appended(gmsh.resolved, gmsh.path)
           /\ Kind(gmsh.resolved) # "dir" => gmsh.path = gmsh.resolved
           /\ Kind(gmsh.resolved) = "dir" /\ Kind(gmsh.path) \notin {"file", "exe"}
                => /\ gmsh.pc = "failed"
                   /\ gmsh.err.type = "DistutilsSetupError"
                   /\ gmsh.invoked = None
           /\ gmsh.invoked # None => gmsh.invoked = gmsh.path
           /\ gmsh.pc = "done"
                => gmsh.invoked = gmsh.path /\ dist.gmsh_bin_path = gmsh.path

\* A directory given with a trailing separator has had the filename appended
\* and the binary there has passed the check.
C5_Witness ==
    /\ gmsh.pc = "done"
    /\ gmsh.resolved = Abs(<<"opt">>) \o <<SEP>>
    /\ dist.gmsh_bin_path = Abs(<<"opt", "gmsh">>)

\* C6: when the binary at the resolved path is on disk but cannot be started
\* or exits nonzero on --version, CheckGmsh.run raises a DistutilsSetupError
\* naming the path tried; it returns normally only after an exit status 0.
C6_NotFunctional ==
    /\ gmsh.pc \in {"done", "failed"} /\ Kind(gmsh.path) \in {"file", "exe"}
            /\ (Kind(gmsh.path) = "file" \/ gmsh.exit # 0)
        => /\ gmsh.pc = "failed"
           /\ gmsh.err.type = "DistutilsSetupError"
           /\ EndsWith(gmsh.err, gmsh.path)
    /\ gmsh.pc = "done" => gmsh.invoked # None /\ gmsh.exit = 0

\* l is the first line of the text out: all of it when it holds no newline,
\* else what comes before the first newline and that newline.
IsFirstLine(l, out) ==
    /\ Len(l) <= Len(out)
    /\ l = SubSeq(out, 1, Len(l))
    /\ \A i \in 1..(Len(l) - 1) : l[i] # NL
    /\ l # out => l # <<>> /\ l[Len(l)] = NL

\* v is l without the whitespace at its two ends.
IsStripped(v, l) ==
    /\ v # <<>> => ~IsSpace(v[1]) /\ ~IsSpace(v[Len(v)])
    /\ \E i \in 0..Len(l) :
          /\ i + Len(v) <= Len(l)
          /\ v = SubSeq(l, i + 1, i + Len(v))
          /\ \A j \in (1..i) \cup ((i + Len(v) + 1)..Len(l)) : IsSpace(l[j])

\* v is l without its trailing newline.
IsChomped(v, l) ==
    IF l # <<>> /\ l[Len(l)] = NL THEN v = SubSeq(l, 1, Len(l) - 1) ELSE v = l

\* C7, as stated: the version reported by a successful CheckGmsh.run is the
\* first line of the captured output with its trailing newline removed.
C7_FirstLineChomped ==
    gmsh.pc = "done"
        => \E n \in 0..Len(gmsh.out) :
              /\ IsFirstLine(SubSeq(gmsh.out, 1, n), gmsh.out)
              /\ IsChomped(gmsh.version, SubSeq(gmsh.out, 1, n))

\* C7, amended: the version reported by a successful CheckGmsh.run is the
\* first line of the captured output with the whitespace at both ends
\* removed; later lines do not affect it, and with an override the location
\* recorded is the override.
C7_FirstLineStripped ==
    gmsh.pc = "done"
        => /\ \E n \in 0..Len(gmsh.out) :
                 /\ IsFirstLine(SubSeq(gmsh.out, 1, n), gmsh.out)
                 /\ IsStripped(gmsh.version, SubSeq(gmsh.out, 1, n))
           /\ gmsh.opt = Abs(<<"opt", "gmsh">>) /\ gmsh.out = <<"4.2.0", NL>>
                => gmsh.version = <<"4.2.0">> /\ dist.gmsh_bin_path = gmsh.opt

\* The binary has printed a second line after the version.
C7_Witness ==
    /\ gmsh.pc = "done"
    /\ gmsh.out = <<"4.2.0", NL, "4.2.0">>
    /\ gmsh.version = <<"4.2.0">>

\* C8: CheckQgis.run never returns normally when qgis.core cannot be
\* imported.
C8_ImportFatal ==
    qgis.pc \in {"done", "failed"} /\ qgis.core # "ok" => qgis.pc = "failed"

\* What C9 says of a command record c whose run has ended, and the
\* context's location loc for its tool.
WriteBack(c, loc) ==
    c.pc \in {"done", "failed"}
        => /\ c.version # None <=> c.pc = "done"
           /\ loc = IF c.version # None THEN c.path ELSE c.ctx

\* C9: CheckGmsh.run and CheckQgis.run assign the context's location if and
\* only if the verification succeeded, a version having been obtained; on a
\* failure the context's location is what it was before run.
C9_WriteBackOnSuccess ==
    /\ WriteBack(gmsh, dist.gmsh_bin_path)
    /\ WriteBack(qgis, dist.qgis_path)

\* C10: write_git_sha_key, when enabled, never raises: it writes the
\* placeholder when there is no repository or no hash to be had, else the
\* hash, followed by the annotation exactly when the working tree is dirty.
C10_GitShaNeverRaises ==
    egg.pc # "idle" /\ dist.include_git_sha_key
        => /\ egg.pc = "done"
           /\ egg.git_sha_key = CASE egg.repo \in {"norepo", "empty"} -> Placeholder
                                  [] egg.repo = "clean" -> HexSha
                                  [] OTHER -> HexSha \o DirtyNote

\* The operations op logged on the artifact or local file a.
Logged(op, a) ==
    {i \in 1..Len(meta.log) : meta.log[i] = [op |-> op, name |-> a]}

\* The artifact a is as the earlier build left it and nothing was done to it.
Untouched(a) ==
    /\ meta.files[a] \in {None, Stale}
    /\ \A i \in 1..Len(meta.log) : meta.log[i].name # a

\* What C11 says of the writer of a that has been called with its flag, its
\* source string and whether it returned.
FlagGated(a, flag, source, returned) ==
    /\ ~flag => returned /\ Untouched(a)
    /\ flag /\ returned
        => /\ Cardinality(Logged("write", a)) = 1
           /\ Logged("delete", a) = {}
           /\ meta.files[a] = source
    /\ flag /\ ~returned => Logged("write", a) = {}

\* C11: a flag-gated writer (write_git_sha_key, write_full_license,
\* write_author_ids) whose flag is false writes nothing and opens no local
\* file; with its flag true it issues exactly one write of the artifact, of
\* exactly the source string (the contents of the local file, or the git-sha
\* string); the license and authors writers fail only when their local file
\* is missing, with that error, and the git-sha writer does not fail.
C11_FlagGated ==
    /\ egg.pc # "idle"
        => /\ FlagGated("GIT_SHA_KEY", dist.include_git_sha_key, egg.git_sha_key,
                        egg.pc = "done")
           /\ egg.pc = "done"
    /\ meta.pc["LICENSE"] # "idle"
        => /\ FlagGated("LICENSE", dist.include_full_license, meta.read["LICENSE"],
                        meta.pc["LICENSE"] = "done")
           /\ meta.pc["LICENSE"] = "failed"
                => meta.err["LICENSE"].type = "FileNotFoundError"
    /\ meta.pc["AUTHORS.md"] # "idle"
        => /\ FlagGated("AUTHORS.md", dist.include_author_ids, meta.read["AUTHORS.md"],
                        meta.pc["AUTHORS.md"] = "done")
           /\ meta.pc["AUTHORS.md"] = "failed"
                => meta.err["AUTHORS.md"].type = "FileNotFoundError"

\* The part of C11 that the code keeps: the git library is installed, the
\* repository has a commit, and the local files are not empty.
C11_Part ==
    egg.repo # "empty" /\ egg.err.type # "ImportError"
            /\ meta.read["LICENSE"] # <<>> /\ meta.read["AUTHORS.md"] # <<>>
        => C11_FlagGated

\* What C12 says of a step that calls the writer of the artifact a, with the
\* context's location loc and the record c of the tool's check.
ToolPathStep(a, loc, c) ==
    meta.pc[a] = "idle" /\ meta'.pc[a] # "idle"
        => /\ meta'.pc[a] = "done"
           /\ loc # None /\ loc # <<>>
                => /\ meta'.files[a] = loc
                   /\ meta'.log = meta.log \o <<[op |-> "write", name |-> a]>>
           /\ loc = None \/ loc = <<>>
                => /\ meta'.files[a] = meta.files[a]
                   /\ meta'.log = meta.log
           /\ c.pc = "done"
                => /\ meta'.files[a] = c.path
                   /\ Denotes(c.resolved)
                   /\ meta'.files[a] = c.resolved \/ a = "GMSH_BIN_PATH"

\* C12: write_qgis_path and write_gmsh_bin_path write the artifact, with
\* exactly the context's location for the tool, if and only if that location
\* is neither None nor the empty string, and nothing otherwise; a writer that
\* runs after its tool's check has succeeded writes the location that check
\* validated, which for a directory given to the gmsh check is the directory
\* joined with gmsh.
C12_ToolPath ==
    [][/\ ToolPathStep("QGIS_PATH", dist.qgis_path, qgis)
       /\ ToolPathStep("GMSH_BIN_PATH", dist.gmsh_bin_path, gmsh)
       /\ meta.pc["GMSH_BIN_PATH"] = "idle" /\ meta'.pc["GMSH_BIN_PATH"] # "idle"
                /\ gmsh.pc = "done" /\ Kind(gmsh.resolved) = "dir"
            => Appended(gmsh.resolved, meta'.files["GMSH_BIN_PATH"])]_vars

\* The gmsh check was given a directory and has succeeded, and the writer
\* has then written the directory joined with gmsh.
C12_Witness ==
    /\ gmsh.pc = "done"
    /\ gmsh.opt = Abs(<<"opt">>)
    /\ meta.pc["GMSH_BIN_PATH"] = "done"
    /\ meta.files["GMSH_BIN_PATH"] = Abs(<<"opt", "gmsh">>)

\* The number of leading segments that a and b share: they agree on the
\* first k, and one of them ends there or they differ on the next.
SharedSegments(a, b) ==
    CHOOSE k \in 0..Len(a) :
        /\ k <= Len(b)
        /\ \A i \in 1..k : a[i] = b[i]
        /\ k = Len(a) \/ k = Len(b) \/ a[k + 1] # b[k + 1]

\* root is the path made of the first k of the segments segs of an absolute
\* path, the root directory when they hold no name.
IsPrefixPath(root, segs, k) ==
    IF k <= 1 THEN root = <<SEP>>
    ELSE /\ Len(root) = 2 * (k - 1)
         /\ \A i \in 2..k : root[2 * i - 3] = SEP /\ <<root[2 * i - 2]>> = segs[i]

\* C13: the qgis_path that CheckQgis.finalize_options derives from the
\* directory of the qgis module and the path the lookup of the executable
\* prints is the longest common prefix of the two, taken segment by segment
\* from the root and stopping at the first mismatch: /usr for /usr/lib/qgis
\* and /usr/bin/qgis, and / for two paths without a common segment.
C13_CommonRoot ==
    qgis.probed /\ qgis.validated
        => /\ IsPrefixPath(qgis.resolved, Split(FindQgis(host)),
                           SharedSegments(Split(FindQgis(host)),
                                          Split(CheckOutput(host, "which", "qgis").out)))
           /\ FindQgis(host) = Abs(<<"usr", "lib", "qgis">>)
                    /\ host.PATH = <<Abs(<<"usr", "bin">>)>>
                => qgis.resolved = Abs(<<"usr">>)
           /\ Split(FindQgis(host))[2] # Split(CheckOutput(host, "which", "qgis").out)[2]
                => qgis.resolved = <<SEP>>

\* The executable lies below the directory of the module, whose segments
\* are all shared.
C13_Witness ==
    /\ qgis.pc = "finalized"
    /\ qgis.probed
    /\ host.PATH = <<Abs(<<"usr", "lib", "qgis", "bin">>)>>
    /\ qgis.resolved = Abs(<<"usr", "lib", "qgis">>)

C15_BufferClosed ==
    /\ gmsh.pc \in {"done", "failed"} => gmsh.buffer # "open"
    /\ gmsh.buffer # "none" => gmsh.pc \in {"done", "failed"}

\* The steps of the trace that import the toolkit or initialise it.
ToolkitUse == {"import qgis", "import qgis.core", "initQgis"}

\* C16: in every run of CheckQgis, with or without an override, and of
\* check_env, QT_LOGGING_RULES and QT_QPA_PLATFORM are set before the first
\* import of qgis or qgis.core and before the toolkit is initialised, and
\* once set they keep their values.
C16_HeadlessFirst ==
    /\ \A i \in 1..Len(env.trace) :
          env.trace[i] \in ToolkitUse => \E j \in 1..(i - 1) : env.trace[j] = "setenv"
    /\ (\E j \in 1..Len(env.trace) : env.trace[j] = "setenv")
        => /\ env.QT_LOGGING_RULES = <<"qt5ct.debug=false">>
           /\ env.QT_QPA_PLATFORM = <<"offscreen">>

\* The part of C16 that the code keeps: check_env and CheckQgis.run set the
\* variables before they import; the variables keep their values.
C16_Part ==
    /\ \A i \in 1..Len(env.trace) :
          env.trace[i] \in ToolkitUse
              => \/ \E j \in 1..(i - 1) : env.trace[j] = "setenv"
                 \/ env.trace[i] = "import qgis" /\ qgis.probed
    /\ (\E j \in 1..Len(env.trace) : env.trace[j] = "setenv")
        => /\ env.QT_LOGGING_RULES = <<"qt5ct.debug=false">>
           /\ env.QT_QPA_PLATFORM = <<"offscreen">>

\* The outcome of a check whose run has ended, and the context's location
\* loc for its tool: the location is the command's path after a run that
\* returned, and what the command found there otherwise.
Settled(c, loc) ==
    /\ c.pc = "done" => loc = c.path
    /\ c.pc \in {"rejected", "failed"} => loc = c.ctx

C18_LocationExists ==
    /\ gmsh.pc = "done"
        => /\ Denotes(dist.gmsh_bin_path)
           /\ Kind(gmsh.resolved) = "dir"
                => /\ Appended(gmsh.resolved, dist.gmsh_bin_path)
                   /\ Kind(dist.gmsh_bin_path) \in {"file", "exe"}
    /\ qgis.pc = "done" => Denotes(dist.qgis_path)

\* Both checks have written their location, the gmsh check after appending
\* the filename to the directory it was given.
C18_Witness ==
    /\ gmsh.pc = "done"
    /\ gmsh.resolved = Abs(<<"opt">>)
    /\ dist.gmsh_bin_path = Abs(<<"opt", "gmsh">>)
    /\ qgis.pc = "done"
    /\ dist.qgis_path = Abs(<<"opt">>) \o <<SEP>>

\* C19: on every platform, CheckGmsh.finalize_options with no override and
\* no context location either stores the stripped output of the lookup as
\* gmsh_bin_path or raises DistutilsSetupError; it raises no other error and
\* does not reach assert_path with an unset location.
C19_TwoOutcomes ==
    gmsh.pc # "new" /\ gmsh.probed
        => /\ \/ /\ gmsh.err.type \in {"none", "DistutilsSetupError"}
                 /\ gmsh.resolved # None
                 /\ gmsh.resolved = Strip(GmshLookup(host).out)
              \/ /\ gmsh.pc = "rejected"
                 /\ gmsh.err.type = "DistutilsSetupError"
                 /\ gmsh.resolved = None
           /\ gmsh.validated => gmsh.resolved # None

\* The part of C19 that the code keeps: on Linux, Darwin and Windows with
\* the lookup facility installed.
C19_Part ==
    host.platform \in {"Linux", "Darwin", "Windows"} /\ host.tools # {}
        => C19_TwoOutcomes

====
